---------------------------- MODULE Spec2Model ----------------------------
(***************************************************************************)
(* Model of the Magic Formula screening pipeline:                          *)
(*   screening_parser.parse_screening_html                                 *)
(*   tickers_csv_aggregator.aggregate_tickers_from_html                    *)
(*   input_csv_parser.get_tickers                                          *)
(*   ticker_validator.check_ticker_validity                                *)
(*   financial_data_extractor.extract_data                                 *)
(*   ticker_processor.process_ticker                                       *)
(*   ticker_processing_flow.ticker_processing_flow                         *)
(*   final_table_creator.create_final_table                                *)
(*   screening_html_fetcher.fetch_screening_html                           *)
(*   main.main                                                             *)
(*                                                                         *)
(* Text is a sequence of character codes.  A Python call is an operator    *)
(* that yields an outcome [exc, val]: exc = "none" and the returned value, *)
(* or the name of the exception class that leaves the call.  Python's None *)
(* is the empty sequence and a value x that may also be None is <<x>>.     *)
(* Ratios are integers in units of 10^-3 (P/E: 10^-2).                     *)
(***************************************************************************)
EXTENDS Integers, Sequences, FiniteSets, TLC

VARIABLES
    \* one call of the validator and of the extractor on one provider response
    pcCalc,          \* "idle" | "start" | "validated" | "extracted"
    resp,            \* what the market data provider answers: [bs, inc, info]
    validResult,     \* check_ticker_validity's return value
    extractResult,   \* extract_data's return value: None or <<tuple>>
    \* ticker_processing_flow
    pcFlow,          \* "idle" | "read" | "loop" | "done" | "raised"
    all_tickers,     \* what get_tickers returned
    idx,             \* tickers of all_tickers the loop has been through
    processed_data,  \* the list the flow returns
    visits,          \* history: per ticker gone through, what was called on it
    \* aggregate_tickers_from_html
    pcAgg,           \* "idle" | "loop" | "done" | "parse_raised" | "write_raised"
    html,            \* the per-threshold HTML files: threshold -> page
    market_caps,     \* the thresholds argument
    cap_i,           \* thresholds of market_caps the loop has been through
    agg_tickers,     \* the aggregator's list all_tickers
    extracted,       \* history: what parse_screening_html returned, per pass
    again,           \* history: "first" call, or called again with the "same"
                     \* list or with a "changed" list of the same thresholds
    prevFile,        \* history: the ticker list file the previous call left
    agg_io,          \* history: "none" | "ok" | "failed", the write of the list
    \* fetch_screening_html
    pcFetch,         \* "idle" | "start" | "login" | "loop" | "done" | "raised"
                     \* | "setup_raised" (raised before the try statement)
    fetch_i,         \* thresholds of market_caps the loop has been through
    login,           \* history: "none" | "ok" | "no_form" | "timeout" | "error"
    driver,          \* "none" | "open" | "quit": the browser driver
    quits,           \* history: calls of driver.quit()
    fetchExc,        \* the exception class that left the call, or "none"
    fetchLog,        \* history: per pass, [cap, what, kept]
    \* create_final_table
    pcReport,        \* "idle" | "start" | "done" | "raised"
    table,           \* the argument: a list of record dicts
    dirExists,       \* whether the output directory exists
    reportFile,      \* None or <<[header, rows]>>: the report CSV file
    report_io,       \* history: "none" | "ok" | "mkdir_failed" | "write_failed"
    \* main
    pcMain,          \* "idle" | "fetch" | "aggregate" | "process" | "report"
                     \* | "done" | "raised"
    started,         \* history: the steps main has called, in call order
    \* the file system
    tickerFile       \* the ticker list file: [tag, lines]

calcVars == <<pcCalc, resp, validResult, extractResult>>

flowVars == <<pcFlow, all_tickers, idx, processed_data, visits>>

aggVars == <<pcAgg, html, market_caps, cap_i, agg_tickers, extracted, again, prevFile,
             agg_io>>

fetchVars == <<pcFetch, fetch_i, login, driver, quits, fetchExc, fetchLog>>

reportVars == <<pcReport, table, dirExists, reportFile, report_io>>

mainVars == <<pcMain, started>>

lateVars == <<fetchVars, reportVars, mainVars>>

vars == <<calcVars, flowVars, aggVars, lateVars, tickerFile>>

-----------------------------------------------------------------------------
(* Bounds *)

\* quarterly income-statement rows the provider may return
MaxQuarters == 2

\* lines of a ticker list file handed to ticker_processing_flow
MaxLines == 3

\* rows in the body of a screening results table
MaxRows == 1

\* thresholds in the list handed to aggregate_tickers_from_html
MaxCaps == 3

\* quarterly income-statement rows where more than four quarters are returned
MaxIncomeRows == 5

\* rows in the body of a results table of any row shape
MaxParseRows == 3

\* records in the list handed to create_final_table
MaxRecords == 2

-----------------------------------------------------------------------------
(* Python outcomes *)

Ret(v) == [exc |-> "none", val |-> v]

Raise(e) == [exc |-> e, val |-> <<>>]

None == <<>>

\* the exception classes that "except Exception" catches here (all but
\* BaseException-only classes such as KeyboardInterrupt, which no step models)
IsException(e) == e # "none"

Abs(n) == IF n < 0 THEN -n ELSE n

-----------------------------------------------------------------------------
(* Text *)

\* what str.strip() removes: space, tab, line feed, carriage return
IsSpace(c) == c \in {32, 9, 10, 13}

RECURSIVE LStrip(_)
LStrip(t) == IF t # <<>> /\ IsSpace(t[1]) THEN LStrip(Tail(t)) ELSE t

RECURSIVE RStrip(_)
RStrip(t) ==
    IF t # <<>> /\ IsSpace(t[Len(t)]) THEN RStrip(SubSeq(t, 1, Len(t) - 1)) ELSE t

\* str.strip()
Strip(t) == RStrip(LStrip(t))

-----------------------------------------------------------------------------
(* The market data provider (yfinance), an external collaborator: the      *)
(* values it can hand back for one ticker.                                 *)

\* one cell of a statement: its column is missing from the frame ("absent"),
\* the cell is NaN ("nan"), or it holds a number
Cell(k, v) == [k |-> k, v |-> v]

AbsentCell == Cell("absent", 0)

NaNCell == Cell("nan", 0)

Num(v) == Cell("num", v)

\* a statement: the property access raises ("error"), is None ("none"), or is
\* a DataFrame ("frame") whose transposed rows are the quarters, newest first
Frame(rows) == [tag |-> "frame", rows |-> rows]

NoFrame(tag) == [tag |-> tag, rows |-> <<>>]

BalanceRows ==
    [ equity : {AbsentCell, NaNCell, Num(0), Num(100), Num(-50)},
      cash   : {AbsentCell, Num(20)},
      ltd    : {AbsentCell, Num(30)},
      cd     : {AbsentCell, Num(20), Num(70)} ]

BalanceSheets ==
    {NoFrame("error"), NoFrame("none"), Frame(<<>>)}
        \cup {Frame(<<r>>) : r \in BalanceRows}

NetIncomeCells == {NaNCell, Num(7)}

RECURSIVE SeqsUpTo(_, _)
\* all sequences over S of length at most n
SeqsUpTo(S, n) ==
    IF n = 0 THEN {<<>>}
    ELSE LET shorter == SeqsUpTo(S, n - 1)
         IN  shorter \cup {Append(s, x) : s \in {t \in shorter : Len(t) = n - 1}, x \in S}

IncomeStatements ==
    {NoFrame("error"), NoFrame("none")}
        \cup {Frame(rows) : rows \in SeqsUpTo({[ni |-> c] : c \in NetIncomeCells}, MaxQuarters)}
        \cup {Frame(<<[ni |-> AbsentCell]>>)}

\* stock.info: raises ("error"), is None/empty ("none"), or a mapping in which
\* a key is missing ("absent"), maps to None ("null") or maps to a number
Infos ==
    { [tag |-> "error", marketCap |-> AbsentCell, currentPrice |-> AbsentCell,
       trailingEps |-> AbsentCell, longName |-> "absent"],
      [tag |-> "none", marketCap |-> AbsentCell, currentPrice |-> AbsentCell,
       trailingEps |-> AbsentCell, longName |-> "absent"] }
    \cup
    [ tag          : {"dict"},
      marketCap    : {AbsentCell, Num(900)},
      currentPrice : {AbsentCell, Num(50)},
      trailingEps  : {AbsentCell, Cell("null", 0), Num(0), Num(4)},
      longName     : {"absent", "Acme"} ]

Responses == [bs : BalanceSheets, inc : IncomeStatements, info : Infos]

-----------------------------------------------------------------------------
(* ticker_validator.check_ticker_validity *)

\* ValidityTry without the key field check of line 38
ValidityTry_NoKeyCheck(bs) ==
    IF bs.tag = "error" THEN Raise("Exception")
    ELSE IF bs.tag = "none" THEN Raise("AttributeError")
    ELSE IF Len(bs.rows) = 0 THEN Raise("IndexError")
    ELSE Ret(TRUE)

\* the try block: stock.quarterly_balance_sheet.T, then
\* balance_sheet.iloc[0]["Stockholders Equity"]
ValidityTry(bs) ==
    IF bs.tag = "error" THEN Raise("Exception")
    ELSE IF bs.tag = "none" THEN Raise("AttributeError")      \* None.T
    ELSE IF Len(bs.rows) = 0 THEN Raise("IndexError")         \* iloc[0]
    ELSE IF bs.rows[1].equity.k = "absent" THEN Raise("KeyError")
    ELSE Ret(TRUE)

\* check_ticker_validity without its second handler, "except Exception"
check_ticker_validity_NoCatchAll(bs) ==
    LET r == ValidityTry(bs)
    IN  IF r.exc \in {"IndexError", "KeyError"} THEN Ret(FALSE) ELSE r

check_ticker_validity(bs) ==
    LET r == ValidityTry(bs)
    IN  IF r.exc \in {"IndexError", "KeyError"} THEN Ret(FALSE)
        ELSE IF IsException(r.exc) THEN Ret(FALSE)
        ELSE r

-----------------------------------------------------------------------------
(* financial_data_extractor.extract_data *)

\* int(df.iloc[row_idx][column_name]) with the four caught exception classes
safe_int_access(df, row_idx, column_name) ==
    IF row_idx + 1 > Len(df.rows) THEN 0                      \* IndexError
    ELSE LET c == df.rows[row_idx + 1][column_name]
         IN  IF c.k = "absent" THEN 0                         \* KeyError
             ELSE IF c.k = "nan" THEN 0                       \* ValueError
             ELSE c.v

\* dict.get(key, default) on stock_info; a key mapped to None stays None
InfoGet(info, key, default) ==
    IF info.tag # "dict" \/ info[key].k = "absent" THEN Num(default)
    ELSE info[key]

\* round(n / d, digits) in units of 10^-digits, ties to even; d # 0
RoundDiv(n, d, scale) ==
    LET num == Abs(n) * scale
        den == Abs(d)
        q   == num \div den
        r2  == 2 * (num % den)
        mag == IF r2 > den \/ (r2 = den /\ q % 2 = 1) THEN q + 1 ELSE q
    IN  IF (n < 0) # (d < 0) THEN -mag ELSE mag

\* n / d as Python evaluates it
Div(n, d, scale) ==
    IF d = 0 THEN Raise("ZeroDivisionError") ELSE Ret(RoundDiv(n, d, scale))

\* the division without its "if d else 0.0"
GuardedDiv_Unguarded(n, d, scale) == Div(n, d, scale)

\* round(n / d, digits) if d else 0.0
GuardedDiv(n, d, scale) == IF d # 0 THEN Div(n, d, scale) ELSE Ret(0)

RECURSIVE SumSeq(_)
SumSeq(s) == IF s = <<>> THEN 0 ELSE s[1] + SumSeq(Tail(s))

\* the sum running over range(5)
NetIncomeTTM_FiveQuarters(inc) ==
    LET net_incomes == [i \in 1..5 |-> safe_int_access(inc, i - 1, "ni")]
    IN  SumSeq(net_incomes)

\* sum of safe_int_access(income_statement, i, "Net Income") for i in range(4)
NetIncomeTTM(inc) ==
    LET net_incomes == [i \in 1..4 |-> safe_int_access(inc, i - 1, "ni")]
    IN  SumSeq(net_incomes)

\* the try block of extract_data
ExtractTry(r) ==
    IF r.bs.tag = "error" THEN Raise("Exception")
    ELSE IF r.bs.tag = "none" THEN Ret(None)                  \* "is None or"
    ELSE IF r.inc.tag = "error" THEN Raise("Exception")
    ELSE IF r.inc.tag = "none" THEN Ret(None)
    ELSE IF r.info.tag = "error" THEN Raise("Exception")
    ELSE
    LET equity  == safe_int_access(r.bs, 0, "equity")
        cash    == safe_int_access(r.bs, 0, "cash")
        long_term_debt == safe_int_access(r.bs, 0, "ltd")
        current_debt   == safe_int_access(r.bs, 0, "cd")
        debt    == long_term_debt + current_debt
        market_cap == InfoGet(r.info, "marketCap", 0).v
        stock_name == IF r.info.tag # "dict" \/ r.info.longName = "absent"
                      THEN "N/A" ELSE r.info.longName
        denominator == equity + cash - debt
        faustmann == GuardedDiv(market_cap, denominator, 1000)
        net_income_ttm == NetIncomeTTM(r.inc)
        debt_to_equity == GuardedDiv(debt, equity, 1000)
        roic == GuardedDiv(net_income_ttm, equity + debt, 1000)
        price == InfoGet(r.info, "currentPrice", 0).v
        eps == InfoGet(r.info, "trailingEps", 0)
        \* "if eps": None and 0 are both false
        price_earnings == GuardedDiv(price, IF eps.k = "null" THEN 0 ELSE eps.v, 100)
    IN  IF IsException(faustmann.exc) THEN faustmann
        ELSE IF IsException(debt_to_equity.exc) THEN debt_to_equity
        ELSE IF IsException(roic.exc) THEN roic
        ELSE IF IsException(price_earnings.exc) THEN price_earnings
        ELSE Ret(<< [ stock_name |-> stock_name, equity |-> equity, cash |-> cash,
                      debt |-> debt, market_cap |-> market_cap,
                      faustmann |-> faustmann.val,
                      debt_to_equity |-> debt_to_equity.val,
                      roic |-> roic.val,
                      price_earnings |-> price_earnings.val ] >>)

extract_data(r) ==
    LET t == ExtractTry(r)
    IN  IF IsException(t.exc) THEN Ret(None) ELSE t

-----------------------------------------------------------------------------
(* One validation and one extraction against one provider response *)

NoFile == [tag |-> "missing", lines |-> <<>>]

AggIdle ==
    /\ pcAgg = "idle"
    /\ html = [c \in {} |-> 0]
    /\ market_caps = <<>>
    /\ cap_i = 0
    /\ agg_tickers = <<>>
    /\ extracted = <<>>
    /\ again = "first"
    /\ prevFile = NoFile
    /\ agg_io = "none"

FetchIdle ==
    /\ pcFetch = "idle"
    /\ fetch_i = 0
    /\ login = "none"
    /\ driver = "none"
    /\ quits = 0
    /\ fetchExc = "none"
    /\ fetchLog = <<>>

ReportIdle ==
    /\ pcReport = "idle"
    /\ table = <<>>
    /\ dirExists = FALSE
    /\ reportFile = None
    /\ report_io = "none"

MainIdle ==
    /\ pcMain = "idle"
    /\ started = <<>>

LateIdle == FetchIdle /\ ReportIdle /\ MainIdle

FlowIdle ==
    /\ pcFlow = "idle"
    /\ all_tickers = <<>>
    /\ idx = 0
    /\ processed_data = <<>>
    /\ visits = <<>>

InitCalc ==
    /\ pcCalc = "start"
    /\ resp \in Responses
    /\ validResult = FALSE
    /\ extractResult = None
    /\ FlowIdle
    /\ tickerFile = NoFile
    /\ AggIdle
    /\ LateIdle

CalcValidate ==
    /\ pcCalc = "start"
    /\ validResult' = check_ticker_validity(resp.bs).val
    /\ pcCalc' = "validated"
    /\ UNCHANGED <<resp, extractResult, flowVars, aggVars, tickerFile, lateVars>>

CalcExtract ==
    /\ pcCalc = "validated"
    /\ extractResult' = extract_data(resp).val
    /\ pcCalc' = "extracted"
    /\ UNCHANGED <<resp, validResult, flowVars, aggVars, tickerFile, lateVars>>

NextCalc == CalcValidate \/ CalcExtract

SpecCalc == InitCalc /\ [][NextCalc]_vars

-----------------------------------------------------------------------------
(* input_csv_parser.get_tickers *)

RECURSIVE UpToComma(_)
\* the text before the first comma
UpToComma(line) ==
    IF line = <<>> \/ line[1] = 44 THEN <<>>
    ELSE <<line[1]>> \o UpToComma(Tail(line))

RECURSIVE QuotedField(_)
\* csv.reader after an opening quote: a doubled quote is one quote, a single
\* quote ends the quoted part
QuotedField(rest) ==
    IF rest = <<>> THEN <<>>
    ELSE IF rest[1] # 34 THEN <<rest[1]>> \o QuotedField(Tail(rest))
    ELSE IF Len(rest) >= 2 /\ rest[2] = 34 THEN <<34>> \o QuotedField(Tail(Tail(rest)))
    ELSE UpToComma(Tail(rest))

\* csv.reader's first field of one line
FirstField(line) ==
    IF line # <<>> /\ line[1] = 34 THEN QuotedField(Tail(line)) ELSE UpToComma(line)

\* the rows csv.reader yields: a blank line is the empty row []
CsvRows(lines) ==
    [i \in 1..Len(lines) |-> IF lines[i] = <<>> THEN <<>> ELSE <<FirstField(lines[i])>>]

RECURSIVE TickersOfRows(_)
\* the loop of get_tickers: row[0].strip() of every non-empty row, if not empty
TickersOfRows(rows) ==
    IF rows = <<>> THEN <<>>
    ELSE LET row  == rows[1]
             rest == TickersOfRows(Tail(rows))
         IN  IF row # <<>> /\ Strip(row[1]) # <<>> THEN <<Strip(row[1])>> \o rest
             ELSE rest

\* FileNotFoundError and OSError are caught: the list stays empty
get_tickers(file) ==
    IF file.tag # "file" THEN <<>> ELSE TickersOfRows(CsvRows(file.lines))

-----------------------------------------------------------------------------
(* ticker_processor.process_ticker *)

Fields ==
    {"Ticker", "Stock name", "Equity", "Cash", "Debt", "Market cap",
     "Faustmann", "ROIC", "Debt to equity", "P/E"}

\* the dictionary {}
EmptyDict == [k \in {} |-> 0]

\* unpacking extract_data's outcome e into nine names (None cannot be
\* unpacked), then the dictionary
UnpackToDict(ticker, e) ==
    IF IsException(e.exc) THEN e
    ELSE IF e.val = None THEN Raise("TypeError")
    ELSE LET t == e.val[1]
         IN  Ret([k \in Fields |->
                    CASE k = "Ticker" -> ticker
                      [] k = "Stock name" -> t.stock_name
                      [] k = "Equity" -> t.equity
                      [] k = "Cash" -> t.cash
                      [] k = "Debt" -> t.debt
                      [] k = "Market cap" -> t.market_cap
                      [] k = "Faustmann" -> t.faustmann
                      [] k = "ROIC" -> t.roic
                      [] k = "Debt to equity" -> t.debt_to_equity
                      [] k = "P/E" -> t.price_earnings])

\* the try block of process_ticker
ProcessTry(ticker, r) == UnpackToDict(ticker, extract_data(r))

\* "except Exception" around the unpacking returns {}
process_ticker(ticker, r) ==
    LET d == ProcessTry(ticker, r)
    IN  IF IsException(d.exc) THEN Ret(EmptyDict) ELSE d

-----------------------------------------------------------------------------
(* ticker_processing_flow.ticker_processing_flow *)

\* lines a ticker list file may hold: blank, a space, "A", "B", " B"
FileLines == {<<>>, <<32>>, <<65>>, <<66>>, <<32, 66>>}

TickerFiles ==
    {NoFile, [tag |-> "unreadable", lines |-> <<>>]}
        \cup {[tag |-> "file", lines |-> l] : l \in SeqsUpTo(FileLines, MaxLines)}

FullRow == [equity |-> Num(100), cash |-> Num(20), ltd |-> Num(30), cd |-> AbsentCell]

\* what the provider answers to the validator's request
FlowBalanceSheets ==
    { NoFrame("error"), Frame(<<>>),
      Frame(<<[FullRow EXCEPT !.equity = NaNCell]>>), Frame(<<FullRow>>) }

FullInfo ==
    [tag |-> "dict", marketCap |-> Num(900), currentPrice |-> Num(50),
     trailingEps |-> Num(4), longName |-> "Acme"]

\* what the provider answers to the extractor's requests, made after the
\* validator's and independent of them
FlowResponses ==
    { [bs |-> NoFrame("none"), inc |-> Frame(<<>>), info |-> FullInfo],
      [bs |-> Frame(<<FullRow>>), inc |-> NoFrame("error"), info |-> FullInfo],
      [bs |-> Frame(<<>>), inc |-> Frame(<<>>), info |-> FullInfo],
      [bs |-> Frame(<<FullRow>>), inc |-> Frame(<<[ni |-> Num(7)]>>), info |-> FullInfo] }

CalcIdle ==
    /\ pcCalc = "idle"
    /\ resp = [bs |-> NoFrame("none"), inc |-> NoFrame("none"), info |-> FullInfo]
    /\ validResult = FALSE
    /\ extractResult = None

InitFlow ==
    /\ pcFlow = "read"
    /\ tickerFile \in TickerFiles
    /\ all_tickers = <<>>
    /\ idx = 0
    /\ processed_data = <<>>
    /\ visits = <<>>
    /\ CalcIdle
    /\ AggIdle
    /\ LateIdle

\* all_tickers = get_tickers(tickers_csv_path)
FlowRead ==
    /\ pcFlow = "read"
    /\ all_tickers' = get_tickers(tickerFile)
    /\ pcFlow' = "loop"
    /\ UNCHANGED <<tickerFile, idx, processed_data, visits, calcVars, aggVars, lateVars>>

\* ticker: the loop variable; valid: what check_ticker_validity returned;
\* processed: process_ticker was called; absent: extract_data returned None;
\* appended: the elements this pass added to processed_data
Visit(ticker, valid, processed, absent, appended) ==
    [ticker |-> ticker, valid |-> valid, processed |-> processed,
     absent |-> absent, appended |-> appended]

\* FlowIterate with process_ticker called whatever the validator returned
FlowIterate_NoValidityCheck ==
    /\ pcFlow = "loop"
    /\ idx < Len(all_tickers)
    /\ \E bs \in FlowBalanceSheets, r \in FlowResponses :
         LET ticker == all_tickers[idx + 1]
             v == check_ticker_validity(bs)
             d == process_ticker(ticker, r)
             absent == extract_data(r).val = None
         IN  /\ pcFlow' = "loop"
             /\ idx' = idx + 1
             /\ processed_data' = Append(processed_data, d.val)
             /\ visits' = Append(visits, Visit(ticker, v.val, TRUE, absent, 1))
    /\ UNCHANGED <<tickerFile, all_tickers, calcVars, aggVars, lateVars>>

\* one pass through the body of "for ticker in all_tickers"
FlowIterate ==
    /\ pcFlow = "loop"
    /\ idx < Len(all_tickers)
    /\ \E bs \in FlowBalanceSheets, r \in FlowResponses :
         LET ticker == all_tickers[idx + 1]
             v == check_ticker_validity(bs)
             d == process_ticker(ticker, r)
             absent == extract_data(r).val = None
         IN  IF IsException(v.exc) \/ (v.val /\ IsException(d.exc))
             THEN /\ pcFlow' = "raised"
                  /\ UNCHANGED <<idx, processed_data, visits>>
             ELSE /\ pcFlow' = "loop"
                  /\ idx' = idx + 1
                  /\ IF v.val
                     THEN /\ processed_data' = Append(processed_data, d.val)
                          /\ visits' = Append(visits, Visit(ticker, TRUE, TRUE, absent, 1))
                     ELSE /\ processed_data' = processed_data
                          /\ visits' = Append(visits, Visit(ticker, FALSE, FALSE, FALSE, 0))
    /\ UNCHANGED <<tickerFile, all_tickers, calcVars, aggVars, lateVars>>

\* return processed_data
FlowReturn ==
    /\ pcFlow = "loop"
    /\ idx = Len(all_tickers)
    /\ pcFlow' = "done"
    /\ UNCHANGED <<tickerFile, all_tickers, idx, processed_data, visits, calcVars, aggVars, lateVars>>

NextFlow == FlowRead \/ FlowIterate \/ FlowReturn

SpecFlow == InitFlow /\ [][NextFlow]_vars

\* the interpreter runs the flow's next statement as long as there is one
FairSpecFlow == SpecFlow /\ WF_vars(NextFlow)

-----------------------------------------------------------------------------
(* One validation and one extraction on income statements of up to          *)
(* MaxIncomeRows quarters, most recent first                                *)

QuarterCells == {NaNCell, Num(7), Num(-3)}

LongIncomeStatements ==
    {Frame(rows) : rows \in SeqsUpTo({[ni |-> c] : c \in QuarterCells}, MaxIncomeRows)}
        \cup {Frame([i \in 1..n |-> [ni |-> AbsentCell]]) : n \in 1..MaxIncomeRows}

InitTTM ==
    /\ pcCalc = "start"
    /\ resp \in [bs : {Frame(<<FullRow>>)}, inc : LongIncomeStatements, info : {FullInfo}]
    /\ validResult = FALSE
    /\ extractResult = None
    /\ FlowIdle
    /\ tickerFile = NoFile
    /\ AggIdle
    /\ LateIdle

SpecTTM == InitTTM /\ [][NextCalc]_vars

-----------------------------------------------------------------------------
(* screening_parser.parse_screening_html *)

Range(s) == {s[i] : i \in 1..Len(s)}

\* the text of a table cell: empty, "B", "AB", " B"
CellTexts == {<<>>, <<66>>, <<65, 66>>, <<32, 66>>}

\* a row of the table body, as its cells: the rank alone, or the rank and
\* the ticker cell
PageRows == {<<<<49>>>>} \cup {<<<<49>>, t>> : t \in CellTexts}

\* a per-threshold HTML file: not there ("missing"), there but open() or
\* read() fails with OSError ("unreadable"), of length zero ("empty"), a
\* document without the results table ("notable"), with the table but no
\* <tbody> ("notbody"), or with the table body ("table")
Page(tag, rows) == [tag |-> tag, rows |-> rows]

Pages ==
    {Page(t, <<>>) : t \in {"missing", "unreadable", "empty", "notable", "notbody"}}
        \cup {Page("table", rows) : rows \in SeqsUpTo(PageRows, MaxRows)}

\* open(file_path) and file.read()
ReadFile(page) ==
    IF page.tag = "missing" THEN Raise("FileNotFoundError")
    ELSE IF page.tag = "unreadable" THEN Raise("OSError")
    ELSE Ret(page)

RECURSIVE TickersOfTableRows_FirstColumn(_)
\* the loop reading cells[0] of every row with a cell
TickersOfTableRows_FirstColumn(rows) ==
    IF rows = <<>> THEN <<>>
    ELSE LET cells == rows[1]
             rest  == TickersOfTableRows_FirstColumn(Tail(rows))
         IN  IF Len(cells) > 0 /\ Strip(cells[1]) # <<>>
             THEN <<Strip(cells[1])>> \o rest
             ELSE rest

RECURSIVE TickersOfTableRows(_)
\* the loop over tbody.find_all("tr"): cells[1].get_text(strip=True) of every
\* row with more than one cell, if not empty
TickersOfTableRows(rows) ==
    IF rows = <<>> THEN <<>>
    ELSE LET cells == rows[1]
             rest  == TickersOfTableRows(Tail(rows))
         IN  IF Len(cells) > 1 /\ Strip(cells[2]) # <<>>
             THEN <<Strip(cells[2])>> \o rest
             ELSE rest

\* parse_screening_html with "except OSError" left out
parse_screening_html_OSErrorUncaught(page) ==
    LET f == ReadFile(page)
    IN  IF f.exc = "FileNotFoundError" THEN Ret(<<>>)
        ELSE IF IsException(f.exc) THEN f
        ELSE IF f.val.tag \in {"empty", "notable", "notbody"} THEN Ret(<<>>)
        ELSE Ret(TickersOfTableRows(f.val.rows))

parse_screening_html(page) ==
    LET f == ReadFile(page)
    IN  IF f.exc = "FileNotFoundError" THEN Ret(<<>>)
        ELSE IF f.exc = "OSError" THEN Ret(<<>>)
        ELSE IF IsException(f.exc) THEN f
        ELSE IF f.val.tag \in {"empty", "notable"} THEN Ret(<<>>)   \* if not table
        ELSE IF f.val.tag = "notbody" THEN Ret(<<>>)                \* if not tbody
        ELSE Ret(TickersOfTableRows(f.val.rows))

-----------------------------------------------------------------------------
(* tickers_csv_aggregator.aggregate_tickers_from_html *)

RECURSIVE LexLess(_, _)
\* a < b on Python strings: by code point, a proper prefix first
LexLess(a, b) ==
    IF a = <<>> THEN b # <<>>
    ELSE IF b = <<>> THEN FALSE
    ELSE IF a[1] # b[1] THEN a[1] < b[1]
    ELSE LexLess(Tail(a), Tail(b))

RECURSIVE SortedSet(_)
\* sorted(S) of a set of strings
SortedSet(S) ==
    IF S = {} THEN <<>>
    ELSE LET m == CHOOSE x \in S : \A y \in S \ {x} : LexLess(x, y)
         IN  <<m>> \o SortedSet(S \ {m})

RECURSIVE FirstOccurrences(_, _)
\* the elements of s not in seen, each at its first position
FirstOccurrences(s, seen) ==
    IF s = <<>> THEN <<>>
    ELSE IF s[1] \in seen THEN FirstOccurrences(Tail(s), seen)
    ELSE <<s[1]>> \o FirstOccurrences(Tail(s), seen \cup {s[1]})

RECURSIVE InsertSorted(_, _)
InsertSorted(s, x) ==
    IF s = <<>> THEN <<x>>
    ELSE IF LexLess(x, s[1]) THEN <<x>> \o s
    ELSE <<s[1]>> \o InsertSorted(Tail(s), x)

RECURSIVE SortedList(_)
\* sorted(s) of a list of strings
SortedList(s) == IF s = <<>> THEN <<>> ELSE InsertSorted(SortedList(Tail(s)), s[1])

\* unique_tickers as list(dict.fromkeys(all_tickers)): no sort
unique_tickers_Unsorted(tickers) == FirstOccurrences(tickers, {})

\* unique_tickers as sorted(all_tickers): no set
unique_tickers_NoSet(tickers) == SortedList(tickers)

\* unique_tickers = sorted(set(all_tickers))
unique_tickers(tickers) == SortedSet(Range(tickers))

RECURSIVE DoubleQuotes(_)
DoubleQuotes(t) ==
    IF t = <<>> THEN <<>>
    ELSE (IF t[1] = 34 THEN <<34, 34>> ELSE <<t[1]>>) \o DoubleQuotes(Tail(t))

\* the text written as it is, never in quotes
CsvLine_Unquoted(ticker) == ticker

\* csv_writer.writerow([ticker]) without the line terminator: the text, in
\* quotes when it is empty or holds a comma, a quote, CR or LF
CsvLine(ticker) ==
    IF ticker = <<>> \/ \E i \in 1..Len(ticker) : ticker[i] \in {44, 34, 13, 10}
    THEN <<34>> \o DoubleQuotes(ticker) \o <<34>>
    ELSE ticker

CsvFile(tickers) ==
    [tag |-> "file", lines |-> [i \in 1..Len(tickers) |-> CsvLine(tickers[i])]]

\* the write of the ticker list in its try block: open() truncates the file
\* and one line per ticker is written, or open() fails and leaves the file as
\* it was; the except block logs and re-raises
write_tickers_csv_Swallowed(unique, written, old) ==
    IF written THEN [exc |-> "none", file |-> CsvFile(unique)]
    ELSE [exc |-> "none", file |-> old]

write_tickers_csv(unique, written, old) ==
    IF written THEN [exc |-> "none", file |-> CsvFile(unique)]
    ELSE [exc |-> "OSError", file |-> old]

\* the thresholds files are named after
Caps == {250, 500}

CapLists == SeqsUpTo(Caps, MaxCaps)

InitAgg ==
    /\ pcAgg = "loop"
    /\ html \in [Caps -> Pages]
    /\ market_caps \in CapLists
    /\ cap_i = 0
    /\ agg_tickers = <<>>
    /\ extracted = <<>>
    /\ again = "first"
    /\ prevFile = NoFile
    /\ agg_io = "none"
    /\ tickerFile = NoFile
    /\ FlowIdle
    /\ CalcIdle
    /\ LateIdle

\* one pass through the body of "for cap in market_caps"
AggIterate ==
    /\ pcAgg = "loop"
    /\ cap_i < Len(market_caps)
    /\ LET cap == market_caps[cap_i + 1]
           extracted_tickers == parse_screening_html(html[cap])
       IN  IF IsException(extracted_tickers.exc)
           THEN /\ pcAgg' = "parse_raised"
                /\ UNCHANGED <<cap_i, agg_tickers, extracted>>
           ELSE /\ pcAgg' = "loop"
                /\ cap_i' = cap_i + 1
                /\ agg_tickers' = agg_tickers \o extracted_tickers.val
                /\ extracted' = Append(extracted, extracted_tickers.val)
    /\ UNCHANGED <<html, market_caps, again, prevFile, agg_io, tickerFile, flowVars,
                   calcVars, lateVars>>

\* after the loop: sorted(set(all_tickers)) and the write of the CSV file,
\* which either is done or fails in open() and is re-raised
AggWrite ==
    /\ pcAgg = "loop"
    /\ cap_i = Len(market_caps)
    /\ \E written \in BOOLEAN :
         LET w == write_tickers_csv(unique_tickers(agg_tickers), written, tickerFile)
         IN  /\ agg_io' = IF written THEN "ok" ELSE "failed"
             /\ tickerFile' = w.file
             /\ pcAgg' = IF IsException(w.exc) THEN "write_raised" ELSE "done"
    /\ UNCHANGED <<html, market_caps, cap_i, agg_tickers, extracted, again, prevFile,
                   flowVars, calcVars, lateVars>>

\* aggregate_tickers_from_html called again on the same HTML files, with the
\* thresholds of the last call listed in any order and any number of times
AggAgain ==
    /\ pcAgg = "done"
    /\ \E caps \in CapLists :
         /\ Range(caps) = Range(market_caps)
         /\ market_caps' = caps
         /\ again' = IF caps = market_caps THEN "same" ELSE "changed"
    /\ prevFile' = tickerFile
    /\ cap_i' = 0
    /\ agg_tickers' = <<>>
    /\ extracted' = <<>>
    /\ agg_io' = "none"
    /\ pcAgg' = "loop"
    /\ UNCHANGED <<html, tickerFile, flowVars, calcVars, lateVars>>

NextAgg == AggIterate \/ AggWrite \/ AggAgain

SpecAgg == InitAgg /\ [][NextAgg]_vars

-----------------------------------------------------------------------------
(* The aggregator on one results table with rows of any shape *)

\* a row of the table body: its cells' texts; no cell, one cell, two cells,
\* three cells
ParseRows ==
    PageRows \cup {<<>>, <<<<49>>, <<66>>, <<65>>>>, <<<<49>>, <<>>, <<65>>>>}

ParsePages == {Page("table", rows) : rows \in SeqsUpTo(ParseRows, MaxParseRows)}

InitParse ==
    /\ pcAgg = "loop"
    /\ html \in {[c \in Caps |-> IF c = 250 THEN p ELSE Page("missing", <<>>)] :
                    p \in ParsePages}
    /\ market_caps = <<250>>
    /\ cap_i = 0
    /\ agg_tickers = <<>>
    /\ extracted = <<>>
    /\ again = "first"
    /\ prevFile = NoFile
    /\ agg_io = "none"
    /\ tickerFile = NoFile
    /\ FlowIdle
    /\ CalcIdle
    /\ LateIdle

SpecParse == InitParse /\ [][NextAgg]_vars

-----------------------------------------------------------------------------
(* screening_html_fetcher.fetch_screening_html *)

\* what the browser does on one threshold after the screening page loaded:
\* one of the waits times out, another WebDriver call fails, or the page
\* source is there (of length zero: tag "empty")
FetchedPages ==
    {Page("empty", <<>>), Page("notable", <<>>),
     Page("table", <<<<<<49>>, <<66>>>>>>), Page("table", <<<<<<49>>, <<65, 44, 66>>>>>>)}

FetchOutcomes ==
    {[kind |-> k, page |-> Page("empty", <<>>)] : k \in {"timeout", "error"}}
        \cup {[kind |-> "source", page |-> p] : p \in FetchedPages}

\* fetch_single_screening_html with "except TimeoutException" left out
fetch_single_screening_html_TimeoutUncaught(o) ==
    IF o.kind = "timeout" THEN Raise("TimeoutException")
    ELSE IF o.kind = "error" THEN Raise("WebDriverException")
    ELSE Ret(<<o.page>>)

\* the try block and "except TimeoutException: return None"
fetch_single_screening_html(o) ==
    IF o.kind = "timeout" THEN Ret(None)
    ELSE IF o.kind = "error" THEN Raise("WebDriverException")
    ELSE Ret(<<o.page>>)

\* "if html_content": None and the empty string are false
Truthy(html_content) == html_content # None /\ html_content[1].tag # "empty"

\* save_html_to_file: the content replaces the file, or open() fails, which
\* is logged and not raised
save_html_to_file(content, saved, old) == IF saved THEN content ELSE old

\* login_to_magic_formula_investing: the form is not found or the wait for
\* the post-login URL times out (SystemExit), or driver.get fails
login_to_magic_formula_investing(o) ==
    IF o = "ok" THEN Ret(None)
    ELSE IF o \in {"no_form", "timeout"} THEN Raise("SystemExit")
    ELSE Raise("WebDriverException")

\* driver.quit() called after the loop and in "except SystemExit" only
LeaveTry_NoFinally(exc) ==
    [pc |-> IF exc = "none" THEN "done" ELSE "raised", exc |-> exc,
     quit |-> exc \in {"none", "SystemExit"}]

\* leaving the try statement: "except SystemExit" re-raises, any other
\* exception passes through, and "finally" calls driver.quit()
LeaveTry(exc) ==
    [pc |-> IF exc = "none" THEN "done" ELSE "raised", exc |-> exc, quit |-> TRUE]

\* the files an earlier run left: none, or a results table with "AB"
StoredPages == {Page("missing", <<>>), Page("table", <<<<<<49>>, <<65, 66>>>>>>)}

InitFetch ==
    /\ pcFetch = "start"
    /\ market_caps \in CapLists
    /\ html \in [Caps -> StoredPages]
    /\ fetch_i = 0
    /\ login = "none"
    /\ driver = "none"
    /\ quits = 0
    /\ fetchExc = "none"
    /\ fetchLog = <<>>
    /\ pcAgg = "idle"
    /\ cap_i = 0
    /\ agg_tickers = <<>>
    /\ extracted = <<>>
    /\ again = "first"
    /\ prevFile = NoFile
    /\ agg_io = "none"
    /\ tickerFile = NoFile
    /\ ReportIdle
    /\ MainIdle
    /\ FlowIdle
    /\ CalcIdle

\* what the fetcher leaves alone
fetchRest ==
    <<market_caps, pcAgg, cap_i, agg_tickers, extracted, again, prevFile, agg_io,
      tickerFile, pcReport, table, reportFile, report_io, mainVars, flowVars, calcVars>>

\* driver = init_webdriver() and output_dir_path.mkdir(parents=True), before
\* the try; the directory is a subdirectory of the report's directory
FetchStart ==
    /\ pcFetch = "start"
    /\ \E created \in BOOLEAN, made \in BOOLEAN :
         IF ~created
         THEN /\ pcFetch' = "setup_raised"
              /\ fetchExc' = "WebDriverException"
              /\ driver' = driver
         ELSE IF ~made
         THEN /\ pcFetch' = "setup_raised"
              /\ fetchExc' = "OSError"
              /\ driver' = "open"
         ELSE /\ pcFetch' = "login"
              /\ fetchExc' = fetchExc
              /\ driver' = "open"
    /\ dirExists' = (dirExists \/ pcFetch' = "login")
    /\ UNCHANGED <<fetch_i, login, quits, fetchLog, html, fetchRest>>

\* the try statement left with exception exc ("none": the loop is over)
Leave(exc) ==
    LET l == LeaveTry(exc)
    IN  /\ pcFetch' = l.pc
        /\ fetchExc' = l.exc
        /\ quits' = IF l.quit THEN quits + 1 ELSE quits
        /\ driver' = IF l.quit THEN "quit" ELSE driver

\* login_to_magic_formula_investing(driver, username, password)
FetchLogin ==
    /\ pcFetch = "login"
    /\ \E o \in {"ok", "no_form", "timeout", "error"} :
         LET r == login_to_magic_formula_investing(o)
         IN  /\ login' = o
             /\ IF IsException(r.exc)
                THEN Leave(r.exc)
                ELSE /\ pcFetch' = "loop"
                     /\ UNCHANGED <<driver, quits, fetchExc>>
    /\ UNCHANGED <<fetch_i, fetchLog, html, dirExists, fetchRest>>

Pass(cap, what, kept) == [cap |-> cap, what |-> what, kept |-> kept]

\* one pass through the body of "for cap in market_caps": driver.get, which
\* may fail (loaded = FALSE), fetch_single_screening_html, save_html_to_file
FetchIterate ==
    /\ pcFetch = "loop"
    /\ fetch_i < Len(market_caps)
    /\ \E loaded \in BOOLEAN, o \in FetchOutcomes, saved \in BOOLEAN :
         LET cap == market_caps[fetch_i + 1]
             html_content == fetch_single_screening_html(o)
         IN  IF ~loaded
             THEN /\ Leave("WebDriverException")
                  /\ fetchLog' = Append(fetchLog, Pass(cap, "not_loaded", TRUE))
                  /\ UNCHANGED <<fetch_i, html>>
             ELSE IF IsException(html_content.exc)
             THEN /\ Leave(html_content.exc)
                  /\ fetchLog' = Append(fetchLog, Pass(cap, o.kind, TRUE))
                  /\ UNCHANGED <<fetch_i, html>>
             ELSE /\ fetch_i' = fetch_i + 1
                  /\ UNCHANGED <<pcFetch, driver, quits, fetchExc>>
                  /\ IF Truthy(html_content.val)
                     THEN LET file == save_html_to_file(html_content.val[1], saved,
                                                        html[cap])
                          IN  /\ html' = [html EXCEPT ![cap] = file]
                              /\ fetchLog' = Append(fetchLog,
                                    Pass(cap, IF saved THEN "saved" ELSE "not_saved",
                                         file = html[cap]))
                     ELSE /\ html' = html
                          /\ fetchLog' = Append(fetchLog,
                                Pass(cap, IF o.kind = "timeout" THEN "timeout" ELSE "empty",
                                     TRUE))
    /\ UNCHANGED <<login, dirExists, fetchRest>>

\* the loop is over: finally
FetchFinish ==
    /\ pcFetch = "loop"
    /\ fetch_i = Len(market_caps)
    /\ Leave("none")
    /\ UNCHANGED <<fetch_i, login, fetchLog, html, dirExists, fetchRest>>

NextFetch == FetchStart \/ FetchLogin \/ FetchIterate \/ FetchFinish

SpecFetch == InitFetch /\ [][NextFetch]_vars

-----------------------------------------------------------------------------
(* final_table_creator.create_final_table *)

\* the keys of process_ticker's dictionary in insertion order
FieldOrder ==
    <<"Ticker", "Stock name", "Equity", "Cash", "Debt", "Market cap",
      "Faustmann", "ROIC", "Debt to equity", "P/E">>

\* the keys of one record, in insertion order
KeysInOrder(d) == SelectSeq(FieldOrder, LAMBDA k : k \in DOMAIN d)

RECURSIVE AllKeys(_)
AllKeys(records) ==
    IF records = <<>> THEN <<>> ELSE KeysInOrder(records[1]) \o AllKeys(Tail(records))

\* pd.DataFrame(table) of a list of dicts: the columns are the keys in order
\* of first appearance, the rows the records, a key a record lacks is NaN
DataFrame(records) ==
    LET columns == FirstOccurrences(AllKeys(records), {})
    IN  [ columns |-> columns,
          rows |-> [i \in 1..Len(records) |->
                      [j \in 1..Len(columns) |->
                         IF columns[j] \in DOMAIN records[i]
                         THEN <<records[i][columns[j]]>> ELSE None]] ]

\* df.to_csv(path, index=False): the line of column names, then one line per
\* row, NaN written as the empty field
to_csv(df) == [header |-> df.columns, rows |-> df.rows]

\* create_final_table(table) with the directory existing or not, makedirs
\* succeeding or not (made), to_csv's open() succeeding or not (written)
create_final_table(records, exists, made, written, old) ==
    IF ~exists /\ ~made
    THEN [exc |-> "OSError", dir |-> FALSE, file |-> old, io |-> "mkdir_failed"]
    ELSE IF ~written
    THEN [exc |-> "OSError", dir |-> TRUE, file |-> old, io |-> "write_failed"]
    ELSE [exc |-> "none", dir |-> TRUE, file |-> <<to_csv(DataFrame(records))>>,
          io |-> "ok"]

\* the records process_ticker returns for tickers "A" and "B"
ReportRecords ==
    {process_ticker(t, r).val : t \in {<<65>>, <<66>>}, r \in FlowResponses}

\* a report file an earlier run of the same month left
StaleReport == [header |-> FieldOrder, rows |-> <<>>]

InitReport ==
    /\ pcReport = "start"
    /\ table \in SeqsUpTo(ReportRecords, MaxRecords)
    /\ dirExists \in BOOLEAN
    /\ reportFile \in {None, <<StaleReport>>}
    /\ (reportFile # None => dirExists)
    /\ report_io = "none"
    /\ FetchIdle
    /\ MainIdle
    /\ tickerFile = NoFile
    /\ AggIdle
    /\ FlowIdle
    /\ CalcIdle

ReportWrite ==
    /\ pcReport = "start"
    /\ \E made \in BOOLEAN, written \in BOOLEAN :
         LET r == create_final_table(table, dirExists, made, written, reportFile)
         IN  /\ pcReport' = IF IsException(r.exc) THEN "raised" ELSE "done"
             /\ dirExists' = r.dir
             /\ reportFile' = r.file
             /\ report_io' = r.io
    /\ UNCHANGED <<table, fetchVars, mainVars, tickerFile, aggVars, flowVars, calcVars>>

\* create_final_table called once more in the same month
ReportAgain ==
    /\ pcReport \in {"done", "raised"}
    /\ \E t \in SeqsUpTo(ReportRecords, MaxRecords) : table' = t
    /\ pcReport' = "start"
    /\ report_io' = "none"
    /\ UNCHANGED <<dirExists, reportFile, fetchVars, mainVars, tickerFile, aggVars,
                   flowVars, calcVars>>

NextReport == ReportWrite \/ ReportAgain

SpecReport == InitReport /\ [][NextReport]_vars

-----------------------------------------------------------------------------
(* The two writers of persisted output, each called once *)

\* the list of thresholds, cut to its first two
MARKET_CAPS == <<250, 500>>

\* a ticker list file an earlier run left
StaleTickerFile == CsvFile(<<<<65, 66>>>>)

InitWrites ==
    /\ pcAgg = "loop"
    /\ html \in [Caps -> StoredPages]
    /\ market_caps = MARKET_CAPS
    /\ cap_i = 0
    /\ agg_tickers = <<>>
    /\ extracted = <<>>
    /\ again = "first"
    /\ prevFile = NoFile
    /\ agg_io = "none"
    /\ tickerFile \in {NoFile, StaleTickerFile}
    /\ pcReport = "start"
    /\ table \in SeqsUpTo(ReportRecords, MaxRecords)
    /\ dirExists \in BOOLEAN
    /\ reportFile \in {None, <<StaleReport>>}
    /\ (reportFile # None => dirExists)
    /\ report_io = "none"
    /\ FetchIdle
    /\ MainIdle
    /\ FlowIdle
    /\ CalcIdle

NextWrites == AggIterate \/ AggWrite \/ ReportWrite

SpecWrites == InitWrites /\ [][NextWrites]_vars

-----------------------------------------------------------------------------
(* main.main *)

InitMain ==
    /\ pcMain = "start"
    /\ started = <<>>
    /\ html \in [Caps -> StoredPages]
    /\ dirExists \in BOOLEAN
    /\ pcAgg = "idle"
    /\ market_caps = <<>>
    /\ cap_i = 0
    /\ agg_tickers = <<>>
    /\ extracted = <<>>
    /\ again = "first"
    /\ prevFile = NoFile
    /\ agg_io = "none"
    /\ tickerFile = NoFile
    /\ pcReport = "idle"
    /\ table = <<>>
    /\ reportFile = None
    /\ report_io = "none"
    /\ FetchIdle
    /\ FlowIdle
    /\ CalcIdle

\* fetch_screening_html(market_caps=MARKET_CAPS, ...)
MainFetch ==
    /\ pcMain = "start"
    /\ pcMain' = "fetch"
    /\ started' = Append(started, "fetch")
    /\ pcFetch' = "start"
    /\ market_caps' = MARKET_CAPS
    /\ UNCHANGED <<fetch_i, login, driver, quits, fetchExc, fetchLog, html, pcAgg, cap_i,
                   agg_tickers, extracted, again, prevFile, agg_io, tickerFile,
                   reportVars, flowVars, calcVars>>

\* MainAggregate taken whether fetch_screening_html returned or raised
MainAggregate_FetchFailureIgnored ==
    /\ pcMain = "fetch"
    /\ pcFetch \in {"done", "raised", "setup_raised"}
    /\ pcMain' = "aggregate"
    /\ started' = Append(started, "aggregate")
    /\ pcAgg' = "loop"
    /\ market_caps' = MARKET_CAPS
    /\ UNCHANGED <<html, cap_i, agg_tickers, extracted, again, prevFile, agg_io,
                   tickerFile, fetchVars, reportVars, flowVars, calcVars>>

\* fetch_screening_html returned: aggregate_tickers_from_html(MARKET_CAPS,
\* TICKER_LIST_FILE)
MainAggregate ==
    /\ pcMain = "fetch"
    /\ pcFetch = "done"
    /\ pcMain' = "aggregate"
    /\ started' = Append(started, "aggregate")
    /\ pcAgg' = "loop"
    /\ market_caps' = MARKET_CAPS
    /\ UNCHANGED <<html, cap_i, agg_tickers, extracted, again, prevFile, agg_io,
                   tickerFile, fetchVars, reportVars, flowVars, calcVars>>

\* aggregate_tickers_from_html returned: ticker_processing_flow(TICKER_LIST_FILE)
MainProcess ==
    /\ pcMain = "aggregate"
    /\ pcAgg = "done"
    /\ pcMain' = "process"
    /\ started' = Append(started, "process")
    /\ pcFlow' = "read"
    /\ UNCHANGED <<all_tickers, idx, processed_data, visits, tickerFile, aggVars,
                   fetchVars, reportVars, calcVars>>

\* ticker_processing_flow returned table: create_final_table(table)
MainReport ==
    /\ pcMain = "process"
    /\ pcFlow = "done"
    /\ pcMain' = "report"
    /\ started' = Append(started, "report")
    /\ pcReport' = "start"
    /\ table' = processed_data
    /\ UNCHANGED <<dirExists, reportFile, report_io, tickerFile, aggVars, fetchVars,
                   flowVars, calcVars>>

\* create_final_table returned: main returns
MainReturn ==
    /\ pcMain = "report"
    /\ pcReport = "done"
    /\ pcMain' = "done"
    /\ UNCHANGED <<started, tickerFile, aggVars, fetchVars, reportVars, flowVars, calcVars>>

\* the step main is in raised: main has no try statement
MainRaise ==
    /\ \/ pcMain = "fetch" /\ pcFetch \in {"raised", "setup_raised"}
       \/ pcMain = "aggregate" /\ pcAgg \in {"parse_raised", "write_raised"}
       \/ pcMain = "process" /\ pcFlow = "raised"
       \/ pcMain = "report" /\ pcReport = "raised"
    /\ pcMain' = "raised"
    /\ UNCHANGED <<started, tickerFile, aggVars, fetchVars, reportVars, flowVars, calcVars>>

NextMain ==
    \/ MainFetch \/ MainAggregate \/ MainProcess \/ MainReport \/ MainReturn
    \/ MainRaise
    \/ NextFetch
    \/ AggIterate \/ AggWrite
    \/ NextFlow
    \/ ReportWrite

SpecMain == InitMain /\ [][NextMain]_vars

-----------------------------------------------------------------------------
(* Claims about the aggregator (SpecAgg) *)

\* every ticker parse_screening_html returned during this call
ExtractedSet == UNION {Range(extracted[i]) : i \in 1..Len(extracted)}

\* C5: when aggregate_tickers_from_html has completed, all thresholds were
\* parsed and the file holds the union of the extracted tickers: each on
\* exactly one line, no line that is not one of them, no line break inside a
\* line, and the lines in strictly increasing lexicographic order.
C5_FileIsSortedUnion ==
    pcAgg = "done" =>
        LET lines == tickerFile.lines
        IN  /\ tickerFile.tag = "file"
            /\ Len(extracted) = Len(market_caps)
            /\ \A t \in ExtractedSet :
                   Cardinality({i \in 1..Len(lines) : lines[i] = CsvLine(t)}) = 1
            /\ \A i \in 1..Len(lines) :
                   /\ \E t \in ExtractedSet : lines[i] = CsvLine(t)
                   /\ \A k \in 1..Len(lines[i]) : lines[i][k] \notin {10, 13}
            /\ \A i, j \in 1..Len(lines) : i < j => LexLess(lines[i], lines[j])

\* a call completed that had extracted the same ticker twice and a greater
\* ticker before a smaller one, and wrote two lines
C5_Witness ==
    /\ pcAgg = "done"
    /\ Len(tickerFile.lines) = 2
    /\ Len(agg_tickers) = 3
    /\ LexLess(agg_tickers[2], agg_tickers[1])

\* C6: called again on the same HTML files with the same thresholds in any
\* order, each listed any number of times, aggregate_tickers_from_html leaves
\* the file the previous call left.
C6_OrderAndRepetitionIrrelevant ==
    (pcAgg = "done" /\ again # "first") => tickerFile = prevFile

\* a second call with a different list of the same thresholds completed, on
\* files that give two tickers
C6_Witness ==
    /\ pcAgg = "done"
    /\ again = "changed"
    /\ Len(tickerFile.lines) = 2

FailingPage(page) == page.tag \in {"missing", "unreadable", "empty", "notable", "notbody"}

\* the tickers a page with the results table holds: the stripped text of the
\* second cell of its rows, where there is one and it is not empty
TableTickers(page) ==
    {Strip(row[2]) : row \in {r \in Range(page.rows) : Len(r) > 1 /\ Strip(r[2]) # <<>>}}

\* C7: a per-threshold file that is missing, unreadable, empty or without the
\* results table makes parse_screening_html return the empty list and never
\* raise; the aggregation goes through all thresholds and the file it writes
\* holds the tickers of every threshold whose page has the table.
C7_BadPageContributesNothing ==
    /\ pcAgg # "parse_raised"
    /\ \A i \in 1..Len(extracted) :
           FailingPage(html[market_caps[i]]) => extracted[i] = <<>>
    /\ pcAgg = "done" =>
           /\ Len(extracted) = Len(market_caps)
           /\ \A c \in Range(market_caps) :
                  html[c].tag = "table" =>
                      \A t \in TableTickers(html[c]) :
                          CsvLine(t) \in Range(tickerFile.lines)

\* a call completed whose first threshold's file could not be read and whose
\* second threshold's ticker is in the file
C7_Witness ==
    /\ pcAgg = "done"
    /\ Len(market_caps) >= 2
    /\ html[market_caps[1]].tag = "unreadable"
    /\ html[market_caps[2]].tag = "table"
    /\ Len(tickerFile.lines) = 1

-----------------------------------------------------------------------------
(* Claims about the processing flow (SpecFlow, FairSpecFlow) *)

IsSuccess(v) == v.valid /\ v.processed /\ ~v.absent

\* the visits whose ticker was validated and whose metrics were computed
Successes == SelectSeq(visits, IsSuccess)

HasTicker(d, t) == "Ticker" \in DOMAIN d /\ d["Ticker"] = t

\* C1 as stated: the flow appends only for a ticker that is valid and whose
\* metrics are not absent, so every element of the output carries all ten
\* fields and there are as many elements as such tickers.
C1_OnlyCompleteRecordsAppended ==
    /\ \A i \in 1..Len(processed_data) : DOMAIN processed_data[i] = Fields
    /\ Len(processed_data) = Len(Successes)

\* C2: a ticker for which check_ticker_validity returned false is never handed
\* to process_ticker, adds nothing to the output, and, when no visit of that
\* symbol was valid, no output record carries it.
C2_InvalidNeverProcessed ==
    \A i \in 1..Len(visits) :
        ~visits[i].valid =>
            /\ ~visits[i].processed
            /\ visits[i].appended = 0
            /\ (\A j \in 1..Len(visits) : visits[j].ticker = visits[i].ticker => ~visits[j].valid)
                   => \A k \in 1..Len(processed_data) :
                          ~HasTicker(processed_data[k], visits[i].ticker)

\* the flow returned a non-empty list after a ticker failed validation
C2_Witness ==
    /\ pcFlow = "done"
    /\ Len(processed_data) > 0
    /\ \E i \in 1..Len(visits) : ~visits[i].valid

\* C3: no provider behaviour makes the flow raise, and the flow always gets to
\* return, having validated every ticker of its list in list order.
C3_FailuresContained ==
    /\ [](pcFlow # "raised")
    /\ <>(/\ pcFlow = "done"
          /\ Len(visits) = Len(all_tickers)
          /\ \A i \in 1..Len(visits) : visits[i].ticker = all_tickers[i])

\* the flow returned after a first ticker that failed validation, a second
\* whose metrics came back absent and a third that was computed
C3_Witness ==
    /\ pcFlow = "done"
    /\ Len(visits) = 3
    /\ ~visits[1].valid
    /\ visits[2].valid /\ visits[2].absent
    /\ IsSuccess(visits[3])

\* C4 as stated: the tickers of the output records are the input list
\* restricted to the validated and computed tickers, in the same order, and
\* the output has exactly that many elements.
C4_OutputIsSuccessesInOrder ==
    pcFlow = "done" =>
        /\ Len(processed_data) = Len(Successes)
        /\ \A i \in 1..Len(processed_data) :
               HasTicker(processed_data[i], Successes[i].ticker)

-----------------------------------------------------------------------------
(* Claims about the validator and the extractor (SpecCalc) *)

HasRow(f) == f.tag = "frame" /\ Len(f.rows) > 0

\* the newest balance-sheet row holds a number in the equity column
UsableEquity(bs) == HasRow(bs) /\ bs.rows[1].equity.k = "num"

\* the newest balance-sheet row has the equity column, whatever it holds
EquityFieldPresent(bs) == HasRow(bs) /\ bs.rows[1].equity.k # "absent"

\* C8 as stated: check_ticker_validity returns true exactly when the provider
\* returns at least one quarterly balance-sheet row with a present, numeric
\* equity value (so false for a NaN equity).
C8_ValidIffUsableEquity ==
    pcCalc \in {"validated", "extracted"} => (validResult <=> UsableEquity(resp.bs))

\* C8 amended: check_ticker_validity returns true exactly when the provider
\* returns at least one quarterly balance-sheet row and the frame has the
\* equity column; the value in it (a number or NaN) plays no part.
C8_ValidIffEquityFieldPresent ==
    pcCalc \in {"validated", "extracted"}
        => (validResult <=> EquityFieldPresent(resp.bs))

\* a NaN equity has been validated, and accepted
C8_Witness ==
    /\ pcCalc = "validated"
    /\ HasRow(resp.bs)
    /\ resp.bs.rows[1].equity.k = "nan"
    /\ validResult = TRUE

EpsZeroOrAbsent(info) ==
    info.tag # "dict" \/ info.trailingEps.k \in {"absent", "null"} \/ info.trailingEps.v = 0

\* both statements are frames and the metadata lookup did not raise
DataRetrieved(r) == r.bs.tag = "frame" /\ r.inc.tag = "frame" /\ r.info.tag # "error"

\* C9: whenever extract_data got its statements and metadata, it returns a
\* record, and in that record debt_to_equity is 0.0 when equity = 0, faustmann
\* is 0.0 when equity + cash - debt = 0, roic is 0.0 when equity + debt = 0 and
\* price_earnings is 0.0 when trailing EPS is 0 or absent: a zero denominator
\* never becomes a division error or an absent result.
C9_ZeroDenominatorGivesZero ==
    (pcCalc = "extracted" /\ DataRetrieved(resp)) =>
        /\ extractResult # None
        /\ LET rec == extractResult[1]
           IN  /\ rec.equity = 0 => rec.debt_to_equity = 0
               /\ rec.equity + rec.cash - rec.debt = 0 => rec.faustmann = 0
               /\ rec.equity + rec.debt = 0 => rec.roic = 0
               /\ EpsZeroOrAbsent(resp.info) => rec.price_earnings = 0

\* a record came back although equity = 0 with debt owed, equity + cash - debt
\* = 0 with a market cap, and no EPS with a price
C9_Witness ==
    /\ pcCalc = "extracted"
    /\ extractResult # None
    /\ extractResult[1].equity = 0
    /\ extractResult[1].debt # 0
    /\ extractResult[1].equity + extractResult[1].cash - extractResult[1].debt = 0
    /\ extractResult[1].market_cap # 0
    /\ resp.info.tag = "dict"
    /\ resp.info.trailingEps.k = "absent"
    /\ resp.info.currentPrice.k = "num"

\* the provider has no balance sheet, or no income statement, at all: the
\* statement is None or has zero rows
NoStatement(f) == f.tag = "none" \/ (f.tag = "frame" /\ Len(f.rows) = 0)

\* C10 as stated: when the provider has no balance sheet or no income
\* statement at all (None, or zero rows), extract_data yields None, never a
\* zero-filled record.
C10_NoStatementGivesNone ==
    (pcCalc = "extracted" /\ (NoStatement(resp.bs) \/ NoStatement(resp.inc)))
        => extractResult = None

-----------------------------------------------------------------------------
(* Claims about the trailing-twelve-month net income (SpecTTM) *)

Min(a, b) == IF a < b THEN a ELSE b

\* what one quarterly row contributes: its net income, 0 if it has none
QuarterValue(row) == IF row.ni.k = "num" THEN row.ni.v ELSE 0

\* the sum over the min(4, n) most recent quarters
RecentQuartersSum(inc) ==
    SumSeq([i \in 1..Min(4, Len(inc.rows)) |-> QuarterValue(inc.rows[i])])

\* x is n / d rounded to three decimals, in units of 10^-3
IsRounded3(x, n, d) == 2 * Abs(x * d - n * 1000) <= Abs(d)

\* C11: the ROIC that extract_data returns is computed from the sum of the
\* net incomes of the min(4, n) most recent quarterly rows, a quarter
\* without a usable value counting as 0 and no older quarter counting
C11_TTMIsFourMostRecentQuarters ==
    (pcCalc = "extracted" /\ extractResult # None) =>
        LET rec == extractResult[1]
        IN  /\ rec.equity + rec.debt # 0
            /\ NetIncomeTTM(resp.inc) = RecentQuartersSum(resp.inc)
            /\ IsRounded3(rec.roic, RecentQuartersSum(resp.inc), rec.equity + rec.debt)

\* five quarters returned, the fifth with a net income, one of the four
\* most recent without
C11_Witness ==
    /\ pcCalc = "extracted"
    /\ extractResult # None
    /\ Len(resp.inc.rows) = 5
    /\ resp.inc.rows[5].ni = Num(7)
    /\ resp.inc.rows[2].ni = NaNCell
    /\ resp.inc.rows[1].ni = Num(-3)

-----------------------------------------------------------------------------
(* Claims about the parser's rows (SpecParse) *)

HasTwoColumns(cells) == Len(cells) >= 2

HasTickerText(cells) == Len(cells) >= 2 /\ Strip(cells[2]) # <<>>

\* the stripped text of the second column of each of the rows, in row order
SecondColumnTexts(rows) == [i \in 1..Len(rows) |-> Strip(rows[i][2])]

\* the passes of the aggregator's loop that parsed a document with the table
TablePasses == {i \in 1..Len(extracted) : html[market_caps[i]].tag = "table"}

\* C12 as stated: the parser returns one element per row with at least two
\* columns, the text of its second column, in row order; no other row is
\* skipped
C12_OneElementPerTwoColumnRow ==
    \A i \in TablePasses :
        extracted[i] = SecondColumnTexts(SelectSeq(html[market_caps[i]].rows, HasTwoColumns))

\* C12 amended: the parser returns one element per row with at least two
\* columns whose second column has text left after stripping, that text, in
\* row order with duplicates kept; every other row is skipped
C12_OneElementPerTickerRow ==
    \A i \in TablePasses :
        extracted[i] = SecondColumnTexts(SelectSeq(html[market_caps[i]].rows, HasTickerText))

\* a table of a row with an empty second column and two rows with the same
\* ticker, parsed into that ticker twice
C12_Witness ==
    /\ TablePasses # {}
    /\ \E i \in TablePasses :
         LET rows == html[market_caps[i]].rows
         IN  /\ Len(rows) = 3
             /\ \E j \in 1..3 : HasTwoColumns(rows[j]) /\ ~HasTickerText(rows[j])
             /\ Len(extracted[i]) = 2
             /\ extracted[i][1] = extracted[i][2]

-----------------------------------------------------------------------------
(* Claims about the report writer (SpecReport) *)

\* the row of a record with every field: its values in header order
RowOf(d) == [j \in 1..Len(FieldOrder) |-> <<d[FieldOrder[j]]>>]

\* C13: whatever sequence of records was passed, the empty one included, the
\* file written is the header row of the ten field names followed by one
\* row per record in input order
C13_HeaderThenOneRowPerRecord ==
    (pcReport = "done") =>
        LET f == reportFile[1]
        IN  /\ f.header = FieldOrder
            /\ Len(f.rows) = Len(table)
            /\ \A i \in 1..Len(table) :
                 DOMAIN table[i] = Fields => f.rows[i] = RowOf(table[i])

-----------------------------------------------------------------------------
(* Claims about the fetcher (SpecFetch) *)

\* C16: a wait that times out on one threshold leaves that threshold's file
\* as it was and does not end the call: the loop goes through the
\* thresholds in list order, through all of them unless something other
\* than a timed-out wait raises
C16_TimeoutFailsOnlyThatThreshold ==
    /\ Len(fetchLog) <= Len(market_caps)
    /\ \A i \in 1..Len(fetchLog) :
         /\ fetchLog[i].cap = market_caps[i]
         /\ fetchLog[i].what = "timeout" =>
               /\ fetchLog[i].kept
               /\ i = Len(fetchLog) => pcFetch \in {"loop", "done"}
    /\ pcFetch = "done" => Len(fetchLog) = Len(market_caps)

\* the first of three thresholds timed out, the call returned and the two
\* thresholds after it were saved
C16_Witness ==
    /\ pcFetch = "done"
    /\ Len(fetchLog) = 3
    /\ fetchLog[1].what = "timeout"
    /\ html[market_caps[1]] \in StoredPages
    /\ fetchLog[2].what = "saved"
    /\ fetchLog[3].what = "saved"
    /\ market_caps[1] # market_caps[2]
    /\ market_caps[3] = market_caps[2]

\* C17: from the creation of the driver and the directory on, the driver is
\* open and not quit while the call runs, and quit exactly once when the
\* call is left, whether it returns, re-raises the SystemExit of a failed
\* login or passes on another exception
C17_DriverQuitExactlyOnce ==
    /\ pcFetch \in {"login", "loop"} => (driver = "open" /\ quits = 0)
    /\ pcFetch \in {"done", "raised"} => (driver = "quit" /\ quits = 1)
    /\ (pcFetch = "raised" /\ login \in {"no_form", "timeout"}) => fetchExc = "SystemExit"
    /\ pcFetch = "done" <=> (login = "ok" /\ driver = "quit" /\ fetchExc = "none")

\* a WebDriver error on the second threshold left the call, the driver quit
C17_Witness ==
    /\ pcFetch = "raised"
    /\ fetchExc = "WebDriverException"
    /\ Len(fetchLog) = 2
    /\ fetchLog[2].what \in {"error", "not_loaded"}
    /\ quits = 1

-----------------------------------------------------------------------------
(* Claims about the two writers (SpecWrites) *)

\* C14: a failed write of the ticker list leaves aggregate_tickers_from_html
\* by an exception, a failed creation of the directory or write of the CSV
\* leaves create_final_table by an exception; neither returns after a failure
C14_WriteFailuresRaise ==
    /\ agg_io = "failed" => pcAgg = "write_raised"
    /\ pcAgg = "done" => agg_io = "ok"
    /\ report_io \in {"mkdir_failed", "write_failed"} => pcReport = "raised"
    /\ pcReport = "done" => report_io = "ok"

\* the write of the ticker list failed and so did the creation of the
\* report's directory
C14_Witness ==
    /\ agg_io = "failed"
    /\ pcAgg = "write_raised"
    /\ report_io = "mkdir_failed"
    /\ pcReport = "raised"

-----------------------------------------------------------------------------
(* Claims about a run of main (SpecMain) *)

Steps == <<"fetch", "aggregate", "process", "report">>

\* the step main is in has raised
StepRaised ==
    \/ pcFetch \in {"raised", "setup_raised"}
    \/ pcAgg \in {"parse_raised", "write_raised"}
    \/ pcFlow = "raised"
    \/ pcReport = "raised"

\* C15: main calls fetch, aggregate, process and report in this order, each
\* after the one before it returned; after a step raised no further step is
\* called, and then no report file is written in the run
C15_StepsInOrderAndStopAtRaise ==
    /\ started = SubSeq(Steps, 1, Len(started))
    /\ Len(started) >= 2 => pcFetch = "done"
    /\ Len(started) >= 3 => pcAgg = "done"
    /\ Len(started) >= 4 => pcFlow = "done"
    /\ Len(started) < 2 => pcAgg = "idle"
    /\ Len(started) < 3 => pcFlow = "idle"
    /\ Len(started) < 4 => (pcReport = "idle" /\ reportFile = None)
    /\ StepRaised => (report_io # "ok" /\ reportFile = None)
    /\ pcMain = "raised" => StepRaised

\* the ticker list could not be written: main is left after its second step
C15_Witness ==
    /\ pcMain = "raised"
    /\ started = <<"fetch", "aggregate">>
    /\ agg_io = "failed"
    /\ pcFlow = "idle"
    /\ reportFile = None

\* C18: what get_tickers reads from the file aggregate_tickers_from_html
\* wrote is the sorted duplicate-free sequence that was written, and the
\* flow goes through each of its tickers once, in that order
C18_TickerListRoundTrip ==
    /\ pcFlow \in {"loop", "done", "raised"} =>
          /\ all_tickers = unique_tickers(agg_tickers)
          /\ \A i, j \in 1..Len(all_tickers) : i < j => LexLess(all_tickers[i], all_tickers[j])
    /\ pcFlow = "done" =>
          /\ Len(visits) = Len(all_tickers)
          /\ \A i \in 1..Len(visits) : visits[i].ticker = all_tickers[i]

\* two pages with the tickers "B" and "A,B": the flow went through "A,B"
\* and "B"
C18_Witness ==
    /\ pcFlow = "done"
    /\ agg_tickers = <<<<66>>, <<65, 44, 66>>>>
    /\ all_tickers = <<<<65, 44, 66>>, <<66>>>>
    /\ Len(visits) = 2

=============================================================================
